---- MODULE Spec2Model ----
(***************************************************************************)
(* A model of src/src/utils.py: the helper routines of the IT-data         *)
(* exercise.  The routines that touch the filesystem (download_it_data,    *)
(* load_it_data, get_pca, plot_corr_ev_distribution) are actions over the  *)
(* files they read and write; the pure routines (encode_object_base_labels,*)
(* compute_metrics, the de-normalisation of visualize_img) are operators   *)
(* applied by an action to inputs drawn in the initial state.              *)
(*                                                                         *)
(* Strings are sequences of code points, so that Python's string order and *)
(* the regular expression's character classes are computed, not assumed.   *)
(***************************************************************************)
EXTENDS Integers, Sequences, FiniteSets, TLC

VARIABLES
    scenario,       \* which routines the calling script exercises
    files,          \* the filesystem: path -> content
    netCount,       \* history: network accesses of download_it_data, per directory
    first_absent,   \* history: the first get_pca call that found no cache file
    first_success,  \* history: what the first get_pca call that returned, returned
    objects_train,  \* argument of encode_object_base_labels
    y_true, y_pred, \* arguments of compute_metrics
    stimulus,       \* arguments of visualize_img
    objects,
    stim_idx,
    last            \* the last call: its routine, arguments and outcome

inputs == <<objects_train, y_true, y_pred, stimulus, objects, stim_idx>>

vars == <<scenario, files, netCount, first_absent, first_success, inputs, last>>

NoCall == [op |-> "none"]

(***************************************************************************)
(* Bounds                                                                  *)
(***************************************************************************)
MaxNameLen == 2
MaxNames == 2
\* network accesses followed per directory
MaxDownloads == 2
\* samples and outputs of the matrices given to compute_metrics
MaxSamples == 2
MaxOutputs == 2
\* images of a stimulus, and pixels of an image row
MaxStimuli == 2
MaxWidth == 1

(***************************************************************************)
(* Strings                                                                 *)
(***************************************************************************)
\* 'B', 'a', '1', '_' : an upper-case and a lower-case letter, a digit, another character
Alphabet == {66, 97, 49, 95}

SeqsUpTo(S, n) == UNION {[1..k -> S] : k \in 0..n}

\* the character class [a-zA-Z] of the regular expression
IsLetter(c) == c \in (65..90) \cup (97..122)

\* Python's order on str: lexicographic by code point, a proper prefix first
RECURSIVE StrLess(_, _)
StrLess(s, t) ==
    IF t = <<>> THEN FALSE
    ELSE IF s = <<>> THEN TRUE
    ELSE IF Head(s) # Head(t) THEN Head(s) < Head(t)
    ELSE StrLess(Tail(s), Tail(t))

\* re.match(r'[a-zA-Z]+', obj): the longest run of letters at the start of obj;
\* <<>> stands for "no match" (None), since a match has at least one letter
RECURSIVE LeadingLetters(_)
LeadingLetters(obj) ==
    IF obj = <<>> \/ ~IsLetter(Head(obj)) THEN <<>>
    ELSE <<Head(obj)>> \o LeadingLetters(Tail(obj))

Matches(obj) == LeadingLetters(obj) # <<>>

RECURSIVE SortedDescending(_)
SortedDescending(S) ==
    IF S = {} THEN <<>>
    ELSE LET m == CHOOSE x \in S : \A y \in S \ {x} : StrLess(y, x)
         IN  <<m>> \o SortedDescending(S \ {m})

\* sorted(set(base_names))
RECURSIVE Sorted(_)
Sorted(S) ==
    IF S = {} THEN <<>>
    ELSE LET m == CHOOSE x \in S : \A y \in S \ {x} : StrLess(x, y)
         IN  <<m>> \o Sorted(S \ {m})

\* {base: idx for idx, base in enumerate(unique_bases)}
Enumerate(unique_bases) ==
    [base \in {unique_bases[i] : i \in DOMAIN unique_bases} |->
        (CHOOSE i \in DOMAIN unique_bases : unique_bases[i] = base) - 1]

(***************************************************************************)
(* encode_object_base_labels                                               *)
(***************************************************************************)
BaseNames(names) == [i \in DOMAIN names |-> LeadingLetters(names[i])]

UniqueBases(names) ==
    Sorted({BaseNames(names)[i] : i \in DOMAIN names})

\* a variant that passes over the names without a match
encode_skipping_unmatched(names) ==
    LET kept == {i \in DOMAIN names : Matches(names[i])}
        label_dict == Enumerate(Sorted({LeadingLetters(names[i]) : i \in kept}))
    IN  [op |-> "encode_object_base_labels", outcome |-> "returned",
         label_dict |-> label_dict,
         object_labels |-> [i \in kept |-> label_dict[LeadingLetters(names[i])]]]

encode_object_base_labels(names) ==
    IF \E i \in DOMAIN names : ~Matches(names[i])
    THEN \* None.group() : the comprehension stops at the first such name
         [op |-> "encode_object_base_labels", outcome |-> "raised",
          error |-> "AttributeError"]
    ELSE LET base_names == BaseNames(names)
             label_dict == Enumerate(UniqueBases(names))
         IN  [op |-> "encode_object_base_labels", outcome |-> "returned",
              label_dict |-> label_dict,
              object_labels |-> [i \in DOMAIN names |-> label_dict[base_names[i]]]]

\* ["car1", "car2", "dog1"]
ExampleObjects == <<<<99, 97, 114, 49>>, <<99, 97, 114, 50>>, <<100, 111, 103, 49>>>>

ObjectLists == SeqsUpTo(SeqsUpTo(Alphabet, MaxNameLen), MaxNames) \cup {ExampleObjects}

(***************************************************************************)
(* The filesystem                                                          *)
(***************************************************************************)
NoFile == [kind |-> "no file"]
\* a file that open(..., 'wb') created and pickle.dump did not finish
Truncated == [kind |-> "truncated"]
\* IT_data.h5 as download_it_data fetches it, and a copy of it put there by hand
RemoteArchive == [kind |-> "hdf5", from |-> "download"]
LocalFile == [kind |-> "hdf5", from |-> "copy"]

\* directories a script passes as path_to_data
DataDirs == {"data", "out/linear_models"}
\* os.path.join(path_to_data, 'IT_data.h5')
DataFile(path_to_data) == <<path_to_data, "IT_data.h5">>
\* pkl_file = 'out/linear_models/pca_model.pkl'
pkl_file == <<"out/linear_models", "pca_model.pkl">>
\* f'out/linear_models/{dt_string}_{fig_name}.png'
FigFile(dt_string, fig_name) == <<"out/linear_models", dt_string, "_", fig_name, ".png">>

Timestamps == {"202611030319"}
FigNames == {"ridge"}

AllFiles ==
    {DataFile(d) : d \in DataDirs} \cup {pkl_file}
        \cup {FigFile(t, n) : t \in Timestamps, n \in FigNames}

NoFiles == files = [f \in AllFiles |-> NoFile]

NoInputs ==
    /\ objects_train = <<>>
    /\ y_true = <<>> /\ y_pred = <<>>
    /\ stimulus = <<>> /\ objects = <<>> /\ stim_idx = 0

NoHistory ==
    /\ netCount = [d \in DataDirs |-> 0]
    /\ first_absent = NoCall
    /\ first_success = NoCall

(***************************************************************************)
(* download_it_data                                                        *)
(***************************************************************************)
\* gdown.download fetches into a temporary file and moves it to output when the
\* fetch is complete: it leaves output in place, or nothing.  A failed fetch
\* raises, or prints the error and returns None, by the version of the library.
NetResults == {"ok", "raises", "returns None"}

\* a variant without the existence check
download_always(fs, path_to_data, net) ==
    [files |-> IF net = "ok" THEN [fs EXCEPT ![DataFile(path_to_data)] = RemoteArchive]
               ELSE fs,
     ret |-> [op |-> "download_it_data", path_to_data |-> path_to_data,
              network |-> TRUE,
              outcome |-> IF net = "raises" THEN "raised" ELSE "returned"]]

download_it_data(fs, path_to_data, net) ==
    LET output == DataFile(path_to_data) IN
    IF fs[output] = NoFile
    THEN [files |-> IF net = "ok" THEN [fs EXCEPT ![output] = RemoteArchive] ELSE fs,
          ret |-> [op |-> "download_it_data", path_to_data |-> path_to_data,
                   network |-> TRUE,
                   outcome |-> IF net = "raises" THEN "raised" ELSE "returned"]]
    ELSE \* "File already exists. Skipping download."
         [files |-> fs,
          ret |-> [op |-> "download_it_data", path_to_data |-> path_to_data,
                   network |-> FALSE, outcome |-> "returned"]]

DownloadItData ==
    /\ scenario = "files"
    /\ \E path_to_data \in DataDirs, net \in NetResults :
         LET r == download_it_data(files, path_to_data, net) IN
         /\ r.ret.network => netCount[path_to_data] < MaxDownloads
         /\ files' = r.files
         /\ last' = r.ret
         /\ netCount' = IF r.ret.network
                        THEN [netCount EXCEPT ![path_to_data] = @ + 1]
                        ELSE netCount
    /\ UNCHANGED <<scenario, first_absent, first_success, inputs>>

(***************************************************************************)
(* load_it_data                                                            *)
(***************************************************************************)
\* what the environment does to a file operation: nothing, fail the open,
\* fail a read or write after the open
Faults == {"none", "open", "io"}

\* obj_tmp.decode("latin-1"): each byte is the code point of the same number
Latin1Decode(bytes) == [i \in DOMAIN bytes |-> bytes[i]]

\* the byte strings of a dataset object_*: b"car1", b"dog1"
ObjectBytes == <<<<99, 97, 114, 49>>, <<100, 111, 103, 49>>>>

DecodedObjects == [i \in DOMAIN ObjectBytes |-> Latin1Decode(ObjectBytes[i])]

\* the returned tuple: the arrays as stored, the object lists decoded
LoadedArrays ==
    <<"stimulus_train", "stimulus_val", "stimulus_test",
      DecodedObjects, DecodedObjects, DecodedObjects,
      "spikes_train", "spikes_val">>

load_it_data(fs, path_to_data, fault) ==
    LET datafile == fs[DataFile(path_to_data)]
        call == [op |-> "load_it_data", path_to_data |-> path_to_data, fault |-> fault]
    IN  IF datafile = NoFile \/ fault = "open"
        THEN \* h5py.File(..., 'r')
             call @@ [outcome |-> "raised", error |-> "OSError"]
        ELSE IF fault = "io"
        THEN \* datafile[...][()]
             call @@ [outcome |-> "raised", error |-> "OSError"]
        ELSE call @@ [outcome |-> "returned", result |-> LoadedArrays]

LoadItData ==
    /\ scenario = "files"
    /\ \E path_to_data \in DataDirs, fault \in Faults :
         last' = load_it_data(files, path_to_data, fault)
    /\ UNCHANGED <<scenario, files, netCount, first_absent, first_success, inputs>>


(***************************************************************************)
(* compute_pca                                                             *)
(***************************************************************************)
\* A matrix is its shape, and for the output of a transform what produced it:
\* the entries of a decomposition are not computed.
Matrix(rows, cols) == [rows |-> rows, cols |-> cols]

\* n_components=1000
DefaultComponents == 1000

TrainMatrices == {Matrix(3, 2), Matrix(2, 3)}
ValMatrices == {Matrix(1, 2), Matrix(1, 3)}
Components == {1, 2, DefaultComponents}

Min(a, b) == IF a <= b THEN a ELSE b

\* pca.transform(X) of a PCA(n_components) fitted on fitted_on
Transformed(X, fitted_on, n_components) ==
    [rows |-> X.rows, cols |-> n_components,
     pca_of |-> X, fitted_on |-> fitted_on]

compute_pca(X_train, X_val, n_components) ==
    IF n_components > Min(X_train.rows, X_train.cols)
    THEN \* pca.fit_transform: n_components must be at most min(n_samples, n_features)
         [outcome |-> "raised", error |-> "ValueError"]
    ELSE IF X_val.cols # X_train.cols
    THEN \* pca.transform: X_val has another number of features than the fit
         [outcome |-> "raised", error |-> "ValueError"]
    ELSE [outcome |-> "returned",
          result |-> <<Transformed(X_train, X_train, n_components),
                       Transformed(X_val, X_train, n_components)>>]

ComputePca ==
    /\ scenario = "files"
    /\ \E X_train \in TrainMatrices, X_val \in ValMatrices, n \in Components :
         last' = [op |-> "compute_pca", X_train |-> X_train, X_val |-> X_val,
                  n_components |-> n] @@ compute_pca(X_train, X_val, n)
    /\ UNCHANGED <<scenario, files, netCount, first_absent, first_success, inputs>>

(***************************************************************************)
(* get_pca                                                                 *)
(***************************************************************************)
\* a variant that stores the values under each other's key
PickleDumpSwapped(keys, values) ==
    [kind |-> "pickle",
     items |-> [i \in DOMAIN keys |-> <<keys[i], values[Len(values) + 1 - i]>>]]

\* pickle.dump of a dict: its items, in insertion order
PickleDump(keys, values) ==
    [kind |-> "pickle", items |-> [i \in DOMAIN keys |-> <<keys[i], values[i]>>]]

\* pickle.load: the dict of the items
PickleLoad(blob) ==
    LET items == blob.items IN
    [k \in {items[i][1] : i \in DOMAIN items} |->
        items[CHOOSE i \in DOMAIN items : items[i][1] = k][2]]

PcaCall(fs, X_train, X_val, n_components, fault) ==
    [op |-> "get_pca", X_train |-> X_train, X_val |-> X_val,
     n_components |-> n_components, fault |-> fault,
     found |-> fs[pkl_file] # NoFile]

\* the branch of get_pca that finds the pickle file
LoadPca(fs, call) ==
    IF call.fault = "open"
    THEN \* open(pkl_file, 'rb')
         [files |-> fs,
          ret |-> call @@ [computed |-> FALSE, outcome |-> "raised", error |-> "OSError"]]
    ELSE IF fs[pkl_file] = Truncated
    THEN \* pickle.load of a file that ends early
         [files |-> fs,
          ret |-> call @@ [computed |-> FALSE, outcome |-> "raised", error |-> "EOFError"]]
    ELSE IF call.fault = "io"
    THEN [files |-> fs,
          ret |-> call @@ [computed |-> FALSE, outcome |-> "raised", error |-> "OSError"]]
    ELSE LET pca_data == PickleLoad(fs[pkl_file]) IN
         [files |-> fs,
          ret |-> call @@ [computed |-> FALSE, outcome |-> "returned",
                           result |-> <<pca_data["X_train_pca"], pca_data["X_val_pca"]>>]]

\* the branch of get_pca that finds none
ComputeAndSavePca(fs, call) ==
    LET pca == compute_pca(call.X_train, call.X_val, call.n_components) IN
    IF pca.outcome = "raised"
    THEN [files |-> fs, ret |-> call @@ [computed |-> FALSE] @@ pca]
    ELSE IF call.fault = "open"
    THEN \* open(pkl_file, 'wb')
         [files |-> fs,
          ret |-> call @@ [computed |-> TRUE, outcome |-> "raised", error |-> "OSError"]]
    ELSE IF call.fault = "io"
    THEN \* pickle.dump, the file being created
         [files |-> [fs EXCEPT ![pkl_file] = Truncated],
          ret |-> call @@ [computed |-> TRUE, outcome |-> "raised", error |-> "OSError"]]
    ELSE [files |-> [fs EXCEPT ![pkl_file] =
                        PickleDump(<<"X_train_pca", "X_val_pca">>, pca.result)],
          ret |-> call @@ [computed |-> TRUE] @@ pca]

\* a variant that keys the cache by the request
get_pca_keyed(fs, X_train, X_val, n_components, fault) ==
    LET call == PcaCall(fs, X_train, X_val, n_components, fault) IN
    IF /\ fs[pkl_file] # NoFile
       /\ fs[pkl_file] # Truncated
       /\ PickleLoad(fs[pkl_file])["X_train_pca"].rows = X_train.rows
       /\ PickleLoad(fs[pkl_file])["X_train_pca"].cols = n_components
    THEN LoadPca(fs, call)
    ELSE ComputeAndSavePca(fs, call)

\* a variant that never looks for the pickle file
get_pca_overwriting(fs, X_train, X_val, n_components, fault) ==
    ComputeAndSavePca(fs, PcaCall(fs, X_train, X_val, n_components, fault))

get_pca(fs, X_train, X_val, n_components, fault) ==
    LET call == PcaCall(fs, X_train, X_val, n_components, fault) IN
    IF fs[pkl_file] # NoFile
    THEN \* "PCA Pickle file found, variables loaded."
         LoadPca(fs, call)
    ELSE \* "PCA Pickle file does not exist."
         ComputeAndSavePca(fs, call)

\* what a call gave its caller: the value returned, or that it raised
Outcome(ret) ==
    IF ret.outcome = "returned"
    THEN [outcome |-> "returned", result |-> ret.result]
    ELSE [outcome |-> "raised"]

GetPca ==
    /\ scenario = "files"
    /\ \E X_train \in TrainMatrices, X_val \in ValMatrices, n \in Components,
          fault \in Faults :
         LET r == get_pca(files, X_train, X_val, n, fault) IN
         /\ files' = r.files
         /\ last' = r.ret
         /\ first_absent' = IF first_absent = NoCall /\ ~r.ret.found
                            THEN Outcome(r.ret) ELSE first_absent
         /\ first_success' = IF first_success = NoCall /\ r.ret.outcome = "returned"
                             THEN Outcome(r.ret) ELSE first_success
    /\ UNCHANGED <<scenario, netCount, inputs>>

(***************************************************************************)
(* plot_corr_ev_distribution, and the routines that use no file            *)
(***************************************************************************)
Figure == [kind |-> "png"]

plot_corr_ev_distribution(fs, fig_name, dt_string, fault) ==
    LET call == [op |-> "plot_corr_ev_distribution", fig_name |-> fig_name] IN
    IF fault = "none"
    THEN [files |-> [fs EXCEPT ![FigFile(dt_string, fig_name)] = Figure],
          ret |-> call @@ [outcome |-> "returned"]]
    ELSE \* fig.savefig cannot open the file
         [files |-> fs, ret |-> call @@ [outcome |-> "raised", error |-> "OSError"]]

PlotCorrEvDistribution ==
    /\ scenario = "files"
    /\ \E fig_name \in FigNames, dt_string \in Timestamps, fault \in {"none", "open"} :
         LET r == plot_corr_ev_distribution(files, fig_name, dt_string, fault) IN
         /\ files' = r.files
         /\ last' = r.ret
    /\ UNCHANGED <<scenario, netCount, first_absent, first_success, inputs>>

\* visualize_img, print_data_info, compute_metrics, encode_object_base_labels and
\* plot_neurons_metrics open no file: what they compute is modelled below
NoFileRoutines ==
    {"visualize_img", "print_data_info", "compute_metrics",
     "encode_object_base_labels", "plot_neurons_metrics"}

NoFileCall ==
    /\ scenario = "files"
    /\ \E op \in NoFileRoutines : last' = [op |-> op, outcome |-> "returned"]
    /\ UNCHANGED <<scenario, files, netCount, first_absent, first_success, inputs>>

InitFiles ==
    /\ scenario = "files"
    /\ files \in [AllFiles -> {NoFile, LocalFile}]
    /\ \A f \in AllFiles : files[f] = LocalFile => f \in {DataFile(d) : d \in DataDirs}
    /\ NoHistory
    /\ NoInputs
    /\ last = NoCall

Next ==
    \/ DownloadItData
    \/ LoadItData
    \/ ComputePca
    \/ GetPca
    \/ PlotCorrEvDistribution
    \/ NoFileCall

Spec == InitFiles /\ [][Next]_vars

InitEncode ==
    /\ scenario = "encode"
    /\ objects_train \in ObjectLists
    /\ y_true = <<>> /\ y_pred = <<>>
    /\ stimulus = <<>> /\ objects = <<>> /\ stim_idx = 0
    /\ NoFiles
    /\ NoHistory
    /\ last = NoCall

EncodeObjectBaseLabels ==
    /\ scenario = "encode"
    /\ last' = encode_object_base_labels(objects_train)
    /\ UNCHANGED <<scenario, files, netCount, first_absent, first_success, inputs>>

SpecEncode == InitEncode /\ [][EncodeObjectBaseLabels]_vars
(***************************************************************************)
(* The failures of encode_object_base_labels, get_pca and load_it_data     *)
(***************************************************************************)
InitErr == InitEncode \/ InitFiles

NextErr ==
    \/ EncodeObjectBaseLabels
    \/ GetPca
    \/ LoadItData

SpecErr == InitErr /\ [][NextErr]_vars

(***************************************************************************)
(* Exact arithmetic for the scores                                         *)
(***************************************************************************)
Abs(x) == IF x < 0 THEN -x ELSE x

RECURSIVE GCD(_, _)
GCD(a, b) == IF b = 0 THEN a ELSE GCD(b, a % b)

\* the fraction p/q in lowest terms, q > 0
Rat(p, q) ==
    LET g == GCD(Abs(p), Abs(q))
        sgn == IF q < 0 THEN -1 ELSE 1
    IN  [num |-> sgn * (p \div g), den |-> sgn * (q \div g)]

RatAdd(a, b) == Rat(a.num * b.den + b.num * a.den, a.den * b.den)

Zero == Rat(0, 1)
One == Rat(1, 1)
Nan == [nan |-> TRUE]

RECURSIVE SumSeq(_)
SumSeq(xs) == IF xs = <<>> THEN 0 ELSE Head(xs) + SumSeq(Tail(xs))

RECURSIVE RatSum(_)
RatSum(xs) == IF xs = <<>> THEN Zero ELSE RatAdd(Head(xs), RatSum(Tail(xs)))

\* np.mean, np.average of fractions
RatMean(xs) ==
    LET t == RatSum(xs) IN Rat(t.num, t.den * Len(xs))

(***************************************************************************)
(* compute_metrics                                                         *)
(***************************************************************************)
NSamples(y) == Len(y)
NOutputs(y) == Len(y[1])
\* y[:, j]
Column(y, j) == [i \in 1..Len(y) |-> y[i][j]]
Flat(y) == [k \in 1..(NSamples(y) * NOutputs(y)) |->
               y[((k - 1) \div NOutputs(y)) + 1][((k - 1) % NOutputs(y)) + 1]]

\* n * (the sum of squared deviations of x from its mean)
Spread(x) ==
    Len(x) * SumSeq([i \in DOMAIN x |-> x[i] * x[i]]) - SumSeq(x) * SumSeq(x)

\* a variant without the case of a zero numerator
ScoreZeroDenominator(numerator, denominator) ==
    IF denominator # 0 THEN Rat(denominator - numerator, denominator) ELSE Zero

\* sklearn's 1 - numerator/denominator of one output: 1.0 when both are zero,
\* 0.0 when only the denominator is
Score(numerator, denominator) ==
    IF denominator # 0 THEN Rat(denominator - numerator, denominator)
    ELSE IF numerator # 0 THEN Zero
    ELSE One

\* r2_score, multioutput='uniform_average'
r2_score(yt, yp) ==
    IF NSamples(yt) < 2
    THEN Nan  \* "R^2 score is not well-defined with less than two samples."
    ELSE RatMean([j \in 1..NOutputs(yt) |->
            LET t == Column(yt, j)
                d == [i \in DOMAIN t |-> t[i] - yp[i][j]]
            IN  Score(Len(t) * SumSeq([i \in DOMAIN d |-> d[i] * d[i]]), Spread(t))])

mean_squared_error(yt, yp) ==
    LET t == Flat(yt)
        p == Flat(yp)
    IN  Rat(SumSeq([k \in DOMAIN t |-> (t[k] - p[k]) * (t[k] - p[k])]), Len(t))

mean_absolute_error(yt, yp) ==
    LET t == Flat(yt)
        p == Flat(yp)
    IN  Rat(SumSeq([k \in DOMAIN t |-> Abs(t[k] - p[k])]), Len(t))

\* mean of |y_true - y_pred| / max(|y_true|, eps): the terms with y_true = 0 are
\* counted in units of 1/eps
mean_absolute_percentage_error(yt, yp) ==
    LET t == Flat(yt)
        p == Flat(yp)
    IN  [finite |-> RatMean([k \in DOMAIN t |->
                        IF t[k] = 0 THEN Zero ELSE Rat(Abs(t[k] - p[k]), Abs(t[k]))]),
         per_eps |-> Rat(SumSeq([k \in DOMAIN t |->
                        IF t[k] = 0 THEN Abs(t[k] - p[k]) ELSE 0]), Len(t))]

\* explained_variance_score, multioutput='raw_values'
explained_variance_raw(yt, yp) ==
    [j \in 1..NOutputs(yt) |->
        LET t == Column(yt, j)
            d == [i \in DOMAIN t |-> t[i] - yp[i][j]]
        IN  Score(Spread(d), Spread(t))]

\* pearsonr(x, y)[0]: its sign and its square, the coefficient being a square root
pearsonr(x, y) ==
    IF Len(x) < 2
    THEN [outcome |-> "raised", error |-> "ValueError"]
    ELSE IF Spread(x) = 0 \/ Spread(y) = 0
    THEN \* an input array is constant: the coefficient is not defined
         [outcome |-> "returned", r |-> Nan]
    ELSE LET cov == Len(x) * SumSeq([i \in DOMAIN x |-> x[i] * y[i]])
                        - SumSeq(x) * SumSeq(y)
         IN  [outcome |-> "returned",
              r |-> [sign |-> IF cov > 0 THEN 1 ELSE IF cov < 0 THEN -1 ELSE 0,
                     square |-> Rat(cov * cov, Spread(x) * Spread(y))]]

\* np.mean(corr): nan when an entry is, else kept as the mean of the entries
MeanOfCorr(corr) ==
    IF \E j \in DOMAIN corr : corr[j] = Nan THEN Nan ELSE [mean_of |-> corr]

compute_metrics(yt, yp) ==
    LET call == [op |-> "compute_metrics"]
        per_output == [j \in 1..NOutputs(yt) |-> pearsonr(Column(yt, j), Column(yp, j))]
    IN  IF \E j \in DOMAIN per_output : per_output[j].outcome = "raised"
        THEN call @@ [outcome |-> "raised", error |-> "ValueError"]
        ELSE LET ev == explained_variance_raw(yt, yp)
                 corr == [j \in DOMAIN per_output |-> per_output[j].r]
             IN  call @@ [outcome |-> "returned",
                          r2 |-> r2_score(yt, yp),
                          mse |-> mean_squared_error(yt, yp),
                          mae |-> mean_absolute_error(yt, yp),
                          mape |-> mean_absolute_percentage_error(yt, yp),
                          ev |-> ev,
                          ev_avg |-> RatMean(ev),
                          corr |-> corr,
                          corr_avg |-> MeanOfCorr(corr)]

Responses == {0, 1}

ResponseMatrices ==
    UNION {[1..n -> [1..m -> Responses]] : n \in 1..MaxSamples, m \in 1..MaxOutputs}

InitMetrics ==
    /\ scenario = "metrics"
    /\ y_true \in ResponseMatrices
    /\ y_pred \in ResponseMatrices
    /\ NSamples(y_pred) = NSamples(y_true) /\ NOutputs(y_pred) = NOutputs(y_true)
    /\ objects_train = <<>>
    /\ stimulus = <<>> /\ objects = <<>> /\ stim_idx = 0
    /\ NoFiles
    /\ NoHistory
    /\ last = NoCall

ComputeMetrics ==
    /\ scenario = "metrics"
    /\ last' = compute_metrics(y_true, y_pred)
    /\ UNCHANGED <<scenario, files, netCount, first_absent, first_success, inputs>>

SpecMetrics == InitMetrics /\ [][ComputeMetrics]_vars

(***************************************************************************)
(* visualize_img                                                           *)
(***************************************************************************)
\* Values are fixed-point, in thousandths.
Scale == 1000
\* normalize_mean=[0.485, 0.456, 0.406]
normalize_mean == <<485, 456, 406>>
\* normalize_std=[0.229, 0.224, 0.225]
normalize_std == <<229, 224, 225>>

Channels == 1..3
\* an image of one row
Rows == {1}

\* np.transpose(img, [1,2,0]): (channel, row, column) to (row, column, channel)
Transpose(img) ==
    [h \in DOMAIN img[1] |-> [w \in DOMAIN img[1][h] |-> [c \in DOMAIN img |-> img[c][h][w]]]]

\* a variant that scales before the mean is added
DenormalizeMeanUnscaled(img_tmp) ==
    [h \in DOMAIN img_tmp |-> [w \in DOMAIN img_tmp[h] |-> [c \in DOMAIN img_tmp[h][w] |->
        img_tmp[h][w][c] * normalize_std[c] * 255 + normalize_mean[c] * Scale]]]

\* (img_tmp*normalize_std + normalize_mean) * 255, the lists along the last axis;
\* the value is in units of 1/Scale^2
Denormalize(img_tmp) ==
    [h \in DOMAIN img_tmp |-> [w \in DOMAIN img_tmp[h] |-> [c \in DOMAIN img_tmp[h][w] |->
        (img_tmp[h][w][c] * normalize_std[c] + normalize_mean[c] * Scale) * 255]]]

\* astype(np.uint8) of a value above -1 and below 256, in units of 1/Scale^2:
\* the fraction is dropped
AsUint8(v) == IF v < 0 THEN 0 ELSE v \div (Scale * Scale)

visualize_img(stim, objs, idx) ==
    LET img_tmp == Denormalize(Transpose(stim[idx + 1])) IN
    [op |-> "visualize_img", outcome |-> "returned",
     shown |-> [h \in DOMAIN img_tmp |-> [w \in DOMAIN img_tmp[h] |->
                   [c \in DOMAIN img_tmp[h][w] |-> AsUint8(img_tmp[h][w][c])]]],
     title |-> objs[idx + 1]]

\* normalised pixel values whose de-normalisation lies within 0..255 in every channel
PixelValues == {0, 1000}

Images == [Channels -> [Rows -> [1..MaxWidth -> PixelValues]]]

ObjectNames == <<"car1", "car2", "dog1", "face0">>

InitImage ==
    /\ scenario = "image"
    /\ \E n \in 1..MaxStimuli :
         /\ stimulus \in [1..n -> Images]
         /\ objects = SubSeq(ObjectNames, 1, n)
         /\ stim_idx \in 0..(n - 1)
    /\ objects_train = <<>>
    /\ y_true = <<>> /\ y_pred = <<>>
    /\ NoFiles
    /\ NoHistory
    /\ last = NoCall

VisualizeImg ==
    /\ scenario = "image"
    /\ last' = visualize_img(stimulus, objects, stim_idx)
    /\ UNCHANGED <<scenario, files, netCount, first_absent, first_success, inputs>>

SpecImage == InitImage /\ [][VisualizeImg]_vars
(***************************************************************************)
(* Properties                                                              *)
(***************************************************************************)
\* the longest prefix of name made of letters
LetterPrefix(name) ==
    LET k == CHOOSE k \in 0..Len(name) :
                /\ \A i \in 1..k : IsLetter(name[i])
                /\ k = Len(name) \/ ~IsLetter(name[k + 1])
    IN  SubSeq(name, 1, k)

IsDigit(c) == c \in 48..57

\* name without the digits at its end
WithoutTrailingDigits(name) ==
    LET k == CHOOSE k \in 0..Len(name) :
                /\ \A i \in (k + 1)..Len(name) : IsDigit(name[i])
                /\ k = 0 \/ ~IsDigit(name[k])
    IN  SubSeq(name, 1, k)

StartsWithLetter(name) == name # <<>> /\ IsLetter(name[1])

Encoded == last.op = "encode_object_base_labels"

\* C1: for a list of names that each start with a letter, the mapping's keys are
\* the distinct base names, its values are 0..K-1 in the sorted order of the keys,
\* and the i-th label is the mapping of the i-th name's base name; the names
\* car1, car2, dog1 give {car: 0, dog: 1} and [0, 0, 1].
C1_SortedDenseEncoding ==
    (Encoded /\ \A i \in DOMAIN objects_train : StartsWithLetter(objects_train[i])) =>
        /\ last.outcome = "returned"
        /\ DOMAIN last.label_dict =
              {LetterPrefix(objects_train[i]) : i \in DOMAIN objects_train}
        /\ {last.label_dict[b] : b \in DOMAIN last.label_dict} =
              0..(Cardinality(DOMAIN last.label_dict) - 1)
        /\ \A a, b \in DOMAIN last.label_dict :
              StrLess(a, b) => last.label_dict[a] < last.label_dict[b]
        /\ DOMAIN last.object_labels = DOMAIN objects_train
        /\ \A i \in DOMAIN objects_train :
              last.object_labels[i] = last.label_dict[LetterPrefix(objects_train[i])]
        /\ objects_train = ExampleObjects =>
              /\ last.label_dict = [b \in {<<99, 97, 114>>, <<100, 111, 103>>} |->
                                       IF b = <<99, 97, 114>> THEN 0 ELSE 1]
              /\ last.object_labels = <<0, 0, 1>>

\* two names with different base names were encoded, the second sorting first
C1_Witness ==
    /\ Encoded /\ last.outcome = "returned"
    /\ Len(objects_train) = 2
    /\ last.object_labels = <<1, 0>>

\* C6: the base name a name is assigned to is the name without its trailing
\* digits, and two names get the same label exactly when they are equal without
\* their trailing digits.
C6_TrailingDigitsRemoved ==
    (Encoded /\ last.outcome = "returned") =>
        /\ \A i \in DOMAIN objects_train :
              /\ WithoutTrailingDigits(objects_train[i]) \in DOMAIN last.label_dict
              /\ last.label_dict[WithoutTrailingDigits(objects_train[i])]
                    = last.object_labels[i]
        /\ \A i, j \in DOMAIN objects_train :
              (last.object_labels[i] = last.object_labels[j]) <=>
                  (WithoutTrailingDigits(objects_train[i])
                      = WithoutTrailingDigits(objects_train[j]))
\* the pair a pickle file holds under the keys X_train_pca and X_val_pca
StoredPair(content) == <<content.items[1][2], content.items[2][2]>>

HoldsPair(content) ==
    /\ content.kind = "pickle"
    /\ <<content.items[1][1], content.items[2][1]>> = <<"X_train_pca", "X_val_pca">>

PcaReturned == last.op = "get_pca" /\ last.outcome = "returned"

\* C2: a get_pca call that finds the cache file returns the pair stored in it,
\* whatever its arguments, computes no PCA and leaves the files alone; every
\* call after the first that returned, returns what that one returned.
C2_CacheReturnedAsIs ==
    [][(last'.op = "get_pca" /\ last'.outcome = "returned") =>
          /\ files[pkl_file] # NoFile =>
                /\ HoldsPair(files[pkl_file])
                /\ last'.result = StoredPair(files[pkl_file])
                /\ ~last'.computed
                /\ files' = files
          /\ first_success # NoCall => last'.result = first_success.result]_vars

\* a call got a cached training output that has not the rows it asked for
C2_Witness ==
    /\ PcaReturned /\ last.found
    /\ last.n_components <= Min(last.X_train.rows, last.X_train.cols)
    /\ last.result[1].rows # last.X_train.rows
    /\ last.result[1].cols # last.n_components

\* C3 as stated: where a download has created the file, the network was
\* accessed at most once for that directory.
C3_NetworkAtMostOnce ==
    \A d \in DataDirs :
        files[DataFile(d)] = RemoteArchive => netCount[d] <= 1

\* C3, amended: download_it_data accesses the network exactly when the file is
\* absent; with the file present it accesses no network and changes no file; so
\* once the file exists no later call accesses the network for that directory.
C3_DownloadIffAbsent ==
    [][\A d \in DataDirs :
          /\ (last'.op = "download_it_data" /\ last'.path_to_data = d) =>
                /\ last'.network <=> (files[DataFile(d)] = NoFile)
                /\ netCount'[d] = netCount[d] + (IF last'.network THEN 1 ELSE 0)
                /\ ~last'.network => files' = files
          /\ files[DataFile(d)] # NoFile =>
                /\ netCount'[d] = netCount[d]
                /\ files'[DataFile(d)] = files[DataFile(d)]]_vars

\* the second call on a directory found the file of the first and skipped the download
C3_Witness ==
    /\ last.op = "download_it_data" /\ ~last.network
    /\ files[DataFile(last.path_to_data)] = RemoteArchive
    /\ netCount[last.path_to_data] = 1

\* C4: for a training input of shape (N, D) and n_components <= min(N, D), the
\* training output that get_pca returns has shape (N, n_components).
C4_TrainingOutputShape ==
    (PcaReturned /\ last.n_components <= Min(last.X_train.rows, last.X_train.cols)) =>
        /\ last.result[1].rows = last.X_train.rows
        /\ last.result[1].cols = last.n_components

\* C9: a get_pca call that finds no cache file and returns leaves a cache file
\* holding the pair it returned under the keys X_train_pca and X_val_pca, and
\* the same call made again returns that pair.
C9_StoreReload ==
    [][(files[pkl_file] = NoFile /\ last'.op = "get_pca" /\ last'.outcome = "returned") =>
          /\ last'.computed
          /\ HoldsPair(files'[pkl_file])
          /\ Len(files'[pkl_file].items) = 2
          /\ StoredPair(files'[pkl_file]) = last'.result
          /\ get_pca(files', last'.X_train, last'.X_val, last'.n_components, "none").ret.result
                = last'.result]_vars

\* a call computed the PCA and saved it
C9_Witness ==
    /\ PcaReturned /\ last.computed
    /\ HoldsPair(files[pkl_file])

\* C10 as stated: a cache that holds a pair holds the result of the first get_pca
\* call that found the cache absent.
C10_HoldsFirstAbsentResult ==
    HoldsPair(files[pkl_file]) =>
        /\ first_absent.outcome = "returned"
        /\ StoredPair(files[pkl_file]) = first_absent.result

\* C10, amended: once the cache file exists no call changes or removes it; only
\* a get_pca call that found it absent writes it; a cache that holds a pair
\* holds the result of the first get_pca call that returned.
C10_CacheFrozen ==
    [][/\ files[pkl_file] # NoFile => files'[pkl_file] = files[pkl_file]
       /\ files'[pkl_file] # files[pkl_file] =>
             /\ last'.op = "get_pca"
             /\ ~last'.found
             /\ last'.computed
       /\ HoldsPair(files'[pkl_file]) =>
             /\ first_success' # NoCall
             /\ StoredPair(files'[pkl_file]) = first_success'.result]_vars

\* the cache was written by the second call that found it absent, the first
\* having raised, and a figure was saved since
C10_Witness ==
    /\ HoldsPair(files[pkl_file])
    /\ first_absent.outcome = "raised"
    /\ last.op = "plot_corr_ev_distribution" /\ last.outcome = "returned"
Results == {"result", "label_dict", "object_labels"}

\* C7: a call of encode_object_base_labels with a name that is empty or does not
\* start with a letter raises the error of the failed match and returns no
\* mapping and no labels; a get_pca or load_it_data call whose file open or read
\* fails raises that error and returns nothing.
C7_FailuresPropagate ==
    /\ (Encoded /\ \E i \in DOMAIN objects_train : ~StartsWithLetter(objects_train[i])) =>
          /\ last.outcome = "raised"
          /\ last.error = "AttributeError"
          /\ DOMAIN last \cap Results = {}
    /\ (last.op = "get_pca" /\ last.fault # "none" /\ (last.found \/ last.computed)) =>
          /\ last.outcome = "raised"
          /\ last.error \in {"OSError", "EOFError"}
          /\ last.fault = "open" => last.error = "OSError"
          /\ DOMAIN last \cap Results = {}
    /\ (last.op = "load_it_data"
            /\ (last.fault # "none" \/ files[DataFile(last.path_to_data)] = NoFile)) =>
          /\ last.outcome = "raised"
          /\ last.error = "OSError"
          /\ DOMAIN last \cap Results = {}

\* the call raised for its second name, the first being well-formed
C7_Witness ==
    /\ Encoded /\ last.outcome = "raised"
    /\ Len(objects_train) = 2
    /\ StartsWithLetter(objects_train[1])
    /\ ~StartsWithLetter(objects_train[2])

IsOne(r) == r = [sign |-> 1, square |-> One]

SameInputs == last.op = "compute_metrics" /\ y_true = y_pred

Constant(x) == \A i, j \in DOMAIN x : x[i] = x[j]

\* C5 as stated: compute_metrics(y, y) returns R2 = 1, MSE = 0, MAE = 0 and a
\* correlation of 1 for every output, constant outputs included.
C5_PerfectScores ==
    SameInputs =>
        /\ last.outcome = "returned"
        /\ last.r2 = One
        /\ last.mse = Zero
        /\ last.mae = Zero
        /\ \A j \in DOMAIN last.corr : IsOne(last.corr[j])
        /\ last.corr_avg = [mean_of |-> [j \in 1..NOutputs(y_true) |->
                                            [sign |-> 1, square |-> One]]]

\* C5, amended: for y of at least two samples, compute_metrics(y, y) returns
\* R2 = 1, MSE = 0, MAE = 0 and a correlation of 1 for every output that is not
\* constant across the samples; the correlation of a constant output is NaN, and
\* with it the average; with one sample the call raises.
C5_PerfectScoresUnlessConstant ==
    SameInputs =>
        IF NSamples(y_true) < 2
        THEN last.outcome = "raised" /\ last.error = "ValueError"
        ELSE /\ last.outcome = "returned"
             /\ last.r2 = One
             /\ last.mse = Zero
             /\ last.mae = Zero
             /\ DOMAIN last.corr = 1..NOutputs(y_true)
             /\ \A j \in DOMAIN last.corr :
                   IF Constant(Column(y_true, j))
                   THEN last.corr[j] = Nan
                   ELSE IsOne(last.corr[j])
             /\ (last.corr_avg = Nan) <=>
                   \E j \in 1..NOutputs(y_true) : Constant(Column(y_true, j))
             /\ (last.corr_avg # Nan) =>
                   \A j \in DOMAIN last.corr_avg.mean_of : IsOne(last.corr_avg.mean_of[j])

\* y with a constant output and one that varies was scored against itself
C5_Witness ==
    /\ SameInputs /\ last.outcome = "returned"
    /\ NOutputs(y_true) = 2
    /\ Constant(Column(y_true, 1))
    /\ ~Constant(Column(y_true, 2))

ZeroImage(img) ==
    \A c \in DOMAIN img : \A h \in DOMAIN img[c] : \A w \in DOMAIN img[c][h] :
        img[c][h][w] = 0

\* C8: the de-normalisation of an all-zero image shows, in every pixel, the mean
\* of each channel scaled to 0..255 with its fraction dropped: 123, 116, 103.
C8_ZeroImageShowsMean ==
    (last.op = "visualize_img" /\ ZeroImage(stimulus[stim_idx + 1])) =>
        \A h \in DOMAIN last.shown : \A w \in DOMAIN last.shown[h] :
            /\ last.shown[h][w] = <<123, 116, 103>>
            /\ \A c \in Channels :
                  /\ last.shown[h][w][c] * Scale <= normalize_mean[c] * 255
                  /\ normalize_mean[c] * 255 < (last.shown[h][w][c] + 1) * Scale

\* the second image of a stimulus, all zero, was shown, the first being another
C8_Witness ==
    /\ last.op = "visualize_img"
    /\ stim_idx = 1
    /\ ZeroImage(stimulus[2])
    /\ ~ZeroImage(stimulus[1])
====
